---- MODULE Spec2Model ----
(***************************************************************************)
(* kajak: the text-backed event store (lib/storage.py), the date ranges    *)
(* (lib/chrono.py) and the command sessions that load, change and save it  *)
(* (lib/cli.py).                                                           *)
(*                                                                         *)
(* A date is the number year*10000 + month*100 + day, whose order is the   *)
(* order of datetime.date.  A text, a line and a file content are tuples   *)
(* of one-character strings.  An event is the pair <<date, text>> the      *)
(* store keeps in its set.                                                 *)
(***************************************************************************)
EXTENDS Integers, Sequences, FiniteSets, TLC

(***************************************************************************)
(* Characters                                                              *)
(***************************************************************************)
LF == "\n"
CR == "\r"
SP == " "
HT == "\t"

Digits == <<"0", "1", "2", "3", "4", "5", "6", "7", "8", "9">>

\* [0-9] of the line pattern
IsDigit(c) == \E i \in 1..10 : Digits[i] = c

\* int() of one digit
DigitVal(c) == (CHOOSE i \in 1..10 : Digits[i] = c) - 1

\* \s of the line pattern and the characters str.strip() removes
IsSpace(c) == c \in {SP, HT, LF, CR}

\* code point of a character: str comparison is by code point
Code(c) ==
    CASE c = HT -> 9
      [] c = LF -> 10
      [] c = CR -> 13
      [] c = SP -> 32
      [] c = "-" -> 45
      [] IsDigit(c) -> 48 + DigitVal(c)
      [] c = "f" -> 102
      [] c = "n" -> 110
      [] c = "x" -> 120
      [] c = "y" -> 121

(***************************************************************************)
(* Dates: datetime.date                                                    *)
(***************************************************************************)
Date(y, m, d) == y * 10000 + m * 100 + d
Year(date) == date \div 10000
Month(date) == (date \div 100) % 100
Day(date) == date % 100

IsLeap(y) == (y % 4 = 0) /\ ((y % 100 # 0) \/ (y % 400 = 0))

DaysInMonth(y, m) ==
    IF m = 2 THEN (IF IsLeap(y) THEN 29 ELSE 28)
    ELSE IF m \in {4, 6, 9, 11} THEN 30 ELSE 31

\* datetime.date(y, m, d) raises ValueError unless this holds
ValidDate(y, m, d) ==
    /\ y >= 1 /\ y <= 9999
    /\ m >= 1 /\ m <= 12
    /\ d >= 1 /\ d <= DaysInMonth(y, m)

\* isinstance(date, datetime.date): 0 stands for a value of another type
NotADate == Date(0, 0, 0)
IsDate(date) == ValidDate(Year(date), Month(date), Day(date))

date_min == Date(1, 1, 1)
date_max == Date(9999, 12, 31)

\* chrono.py
distant_past == Date(1, 1, 1)
distant_future == Date(9999, 1, 1)
everytime == <<distant_past, distant_future>>

RECURSIVE NumStr(_, _)
\* n as w decimal digits, zero padded
NumStr(n, w) == IF w = 0 THEN <<>> ELSE NumStr(n \div 10, w - 1) \o <<Digits[(n % 10) + 1]>>

\* str(date): YYYY-MM-DD
DateStr(date) == NumStr(Year(date), 4) \o <<"-">> \o NumStr(Month(date), 2) \o <<"-">> \o NumStr(Day(date), 2)

RECURSIVE ToInt(_)
\* int(s) of a string of digits
ToInt(s) == IF s = <<>> THEN 0 ELSE ToInt(SubSeq(s, 1, Len(s) - 1)) * 10 + DigitVal(s[Len(s)])

(***************************************************************************)
(* Texts and events                                                        *)
(***************************************************************************)
RECURSIVE LStrip(_)
LStrip(s) == IF s # <<>> /\ IsSpace(Head(s)) THEN LStrip(Tail(s)) ELSE s

RECURSIVE RStrip(_)
RStrip(s) == IF s # <<>> /\ IsSpace(s[Len(s)]) THEN RStrip(SubSeq(s, 1, Len(s) - 1)) ELSE s

\* str.strip()
Strip(s) == RStrip(LStrip(s))

RECURSIVE LessText(_, _)
\* a < b for two str
LessText(a, b) ==
    IF b = <<>> THEN FALSE
    ELSE IF a = <<>> THEN TRUE
    ELSE IF Head(a) # Head(b) THEN Code(Head(a)) < Code(Head(b))
    ELSE LessText(Tail(a), Tail(b))

\* a < b for two (date, text) tuples
LessItem(a, b) == a[1] < b[1] \/ (a[1] = b[1] /\ LessText(a[2], b[2]))

\* isinstance(text, str): this value stands for an argument of another type
NotAStr == <<"bytes">>
IsStr(text) == text # NotAStr

RECURSIVE sorted_desc(_)
\* the items of S in descending order
sorted_desc(S) ==
    IF S = {} THEN <<>>
    ELSE LET m == CHOOSE x \in S : \A y \in S \ {x} : LessItem(y, x)
         IN  <<m>> \o sorted_desc(S \ {m})

RECURSIVE sorted(_)
\* sorted(self.data): the items of S in ascending tuple order
sorted(S) ==
    IF S = {} THEN <<>>
    ELSE LET m == CHOOSE x \in S : \A y \in S \ {x} : LessItem(x, y)
         IN  <<m>> \o sorted(S \ {m})

\* TextStorage.__iter__
storage_iter(data) == sorted(data)

RECURSIVE iter_seq_nobreak_check(_, _, _)
\* the loop of Storage.iter leaving at the first date before ldate
iter_seq_nobreak_check(items, ldate, rdate) ==
    IF items = <<>> THEN <<>>
    ELSE LET date == Head(items)[1]
         IN  IF date < ldate THEN <<>>
             ELSE IF date > rdate THEN <<>>
             ELSE <<Head(items)>> \o iter_seq_nobreak_check(Tail(items), ldate, rdate)

RECURSIVE iter_seq(_, _, _)
\* the loop of Storage.iter over the items that self yields
iter_seq(items, ldate, rdate) ==
    IF items = <<>> THEN <<>>
    ELSE LET date == Head(items)[1]
         IN  IF date < ldate THEN iter_seq(Tail(items), ldate, rdate)
             ELSE IF date > rdate THEN <<>>
             ELSE <<Head(items)>> \o iter_seq(Tail(items), ldate, rdate)

\* Storage.iter(date_range)
iter(data, date_range) == iter_seq(storage_iter(data), date_range[1], date_range[2])

\* the set of the elements of a sequence
Elems(s) == {s[i] : i \in 1..Len(s)}

\* frozenset((d, t) for d, t in self.iter(date_range) if t == text)
candidates(data, date_range, text) == {e \in Elems(iter(data, date_range)) : e[2] = text}

(***************************************************************************)
(* The outcome of a call: the store it leaves, the exception it raises     *)
(* ("ok" when none), the exception's argument, and the line number the     *)
(* exception carries (0 when it carries none).                             *)
(***************************************************************************)
Outcome(d, e, a) == [data |-> d, err |-> e, payload |-> a, lineno |-> 0]

\* push without the membership test
push_no_check(data, date, text) ==
    IF ~IsDate(date) THEN Outcome(data, "TypeError", {})
    ELSE IF ~IsStr(text) THEN Outcome(data, "TypeError", {})
    ELSE IF text # Strip(text) THEN Outcome(data, "ValueError", {})
    ELSE Outcome(data \cup {<<date, text>>}, "ok", {})

\* TextStorage.push
push(data, date, text) ==
    IF ~IsDate(date) THEN Outcome(data, "TypeError", {})
    ELSE IF ~IsStr(text) THEN Outcome(data, "TypeError", {})
    ELSE IF text # Strip(text) THEN Outcome(data, "ValueError", {})
    ELSE IF <<date, text>> \in data THEN Outcome(data, "Duplicate", {<<date, text>>})
    ELSE Outcome(data \cup {<<date, text>>}, "ok", {})

\* pop removing the candidates before it looks at their number
pop_remove_first(data, date_range, text, multi) ==
    LET c == candidates(data, date_range, text)
    IN  IF multi \/ Cardinality(c) = 1 THEN Outcome(data \ c, "ok", {})
        ELSE IF Cardinality(c) = 0 THEN Outcome(data \ c, "NoMatches", {})
        ELSE Outcome(data \ c, "MultipleMatches", c)

\* pop taking no candidate for success
pop_empty_ok(data, date_range, text, multi) ==
    LET c == candidates(data, date_range, text)
    IN  IF multi \/ Cardinality(c) <= 1 THEN Outcome(data \ c, "ok", {})
        ELSE Outcome(data, "MultipleMatches", c)

\* TextStorage.pop
\* pop that raises NoMatches without candidates whatever multi is
pop_multi_strict(data, date_range, text, multi) ==
    LET c == candidates(data, date_range, text)
    IN  IF Cardinality(c) = 0 THEN Outcome(data, "NoMatches", {})
        ELSE IF multi \/ Cardinality(c) = 1 THEN Outcome(data \ c, "ok", {})
        ELSE Outcome(data, "MultipleMatches", c)

pop(data, date_range, text, multi) ==
    LET c == candidates(data, date_range, text)
    IN  IF multi \/ Cardinality(c) = 1 THEN Outcome(data \ c, "ok", {})
        ELSE IF Cardinality(c) = 0 THEN Outcome(data, "NoMatches", {})
        ELSE Outcome(data, "MultipleMatches", c)

\* reschedule moving the first candidate only
reschedule_first(data, date_range, text, new_date, multi) ==
    LET c == candidates(data, date_range, text)
        f == IF c = {} THEN {} ELSE {Head(sorted(c))}
    IN  IF multi \/ Cardinality(c) = 1
        THEN Outcome((data \ f) \cup {<<new_date, e[2]>> : e \in f}, "ok", {})
        ELSE IF Cardinality(c) = 0 THEN Outcome(data, "NoMatches", {})
        ELSE Outcome(data, "MultipleMatches", c)

\* TextStorage.reschedule
reschedule(data, date_range, text, new_date, multi) ==
    LET c == candidates(data, date_range, text)
    IN  IF multi \/ Cardinality(c) = 1
        THEN Outcome((data \ c) \cup {<<new_date, e[2]>> : e \in c}, "ok", {})
        ELSE IF Cardinality(c) = 0 THEN Outcome(data, "NoMatches", {})
        ELSE Outcome(data, "MultipleMatches", c)

\* TextStorage.clear
\* clear that empties the store
clear_all(data, date_range) == Outcome({}, "ok", {})

clear(data, date_range) == Outcome(data \ Elems(iter(data, date_range)), "ok", {})

(***************************************************************************)
(* The line format                                                         *)
(***************************************************************************)
RECURSIVE Universal(_)
\* reading in text mode: "\r\n" and "\r" arrive as "\n"
Universal(s) ==
    IF s = <<>> THEN <<>>
    ELSE IF Head(s) = CR
         THEN IF Len(s) >= 2 /\ s[2] = LF
              THEN <<LF>> \o Universal(Tail(Tail(s)))
              ELSE <<LF>> \o Universal(Tail(s))
         ELSE <<Head(s)>> \o Universal(Tail(s))

\* the length of the first line of s, its "\n" included
LineEnd(s) ==
    IF \E i \in 1..Len(s) : s[i] = LF
    THEN CHOOSE i \in 1..Len(s) : s[i] = LF /\ \A j \in 1..(i - 1) : s[j] # LF
    ELSE Len(s)

RECURSIVE Lines(_)
\* for line in file
Lines(s) ==
    IF s = <<>> THEN <<>>
    ELSE <<SubSeq(s, 1, LineEnd(s))>> \o Lines(SubSeq(s, LineEnd(s) + 1, Len(s)))

\* whether parse_line(line) is a match:
\* [0-9]{4}-[0-9]{2}-[0-9]{2}\s+ at the start of the line
Matches(line) ==
    /\ Len(line) >= 11
    /\ \A i \in {1, 2, 3, 4, 6, 7, 9, 10} : IsDigit(line[i])
    /\ line[5] = "-"
    /\ line[8] = "-"
    /\ IsSpace(line[11])

\* .* of the line pattern: up to the end of the line, "\n" excluded
UpToLF(s) == IF \E i \in 1..Len(s) : s[i] = LF THEN SubSeq(s, 1, LineEnd(s) - 1) ELSE s

\* the groups of a match; \s+ takes all the white space that follows the date
GroupYear(line) == ToInt(SubSeq(line, 1, 4))
GroupMonth(line) == ToInt(SubSeq(line, 6, 7))
GroupDay(line) == ToInt(SubSeq(line, 9, 10))
GroupText(line) == UpToLF(LStrip(SubSeq(line, 11, Len(line))))

RECURSIVE import_lines(_, _)
\* the loop of TextStorage.import_: a line that is no match raises AttributeError
\* (None has no groups), a date that does not exist raises ValueError; the lines
\* before it have been added
import_lines(lines, data) ==
    IF lines = <<>> THEN Outcome(data, "ok", {})
    ELSE LET line == Head(lines)
         IN  IF ~Matches(line) THEN Outcome(data, "AttributeError", {})
             ELSE IF ~ValidDate(GroupYear(line), GroupMonth(line), GroupDay(line))
                  THEN Outcome(data, "ValueError", {})
             ELSE import_lines(Tail(lines),
                     data \cup {<<Date(GroupYear(line), GroupMonth(line), GroupDay(line)),
                                  GroupText(line)>>})

\* TextStorage.import_(file), file holding the characters s
import_(data, s) == import_lines(Lines(Universal(s)), data)

\* print(date, text, file=file)
PrintLine(e) == DateStr(e[1]) \o <<SP>> \o e[2] \o <<LF>>

RECURSIVE PrintAll(_)
PrintAll(items) == IF items = <<>> THEN <<>> ELSE PrintLine(Head(items)) \o PrintAll(Tail(items))

\* what TextStorage.export(date_range, file) writes
export(data, date_range) == PrintAll(iter(data, date_range))

(***************************************************************************)
(* Bounds and the inputs the model draws from                              *)
(***************************************************************************)
\* the store holds at most this many events
MaxStore == 2
\* the file system has this many inodes
NInodes == 3

Procs == {1, 2}
\* the process of a single session
Solo == {1}

D2020 == Date(2020, 1, 1)
EventDates == {date_min, D2020, date_max}
QueryTexts == {<<"x">>, <<"y">>}
\* the (date, text) arguments of push
PushArgs ==
    (EventDates \X QueryTexts) \cup
    { <<D2020, <<>>>>, <<D2020, <<"x", LF, "y">>>>, <<D2020, <<SP, "x">>>>,
      <<D2020, <<"x", SP>>>>, <<NotADate, <<"x">>>>, <<D2020, NotAStr>> }
Ranges == {everytime, <<D2020, D2020>>, <<D2020, date_max>>, <<date_max, date_min>>,
           <<date_min, date_max>>}
\* the ranges reschedule is called with
MoveRanges == {everytime, <<D2020, date_max>>, <<date_max, date_min>>}

\* the line `not-a-date foo`
BadLine == <<"n", "o", "t", "-", "a", "-", "d", "a", "t", "e", SP, "f", "o", "o", LF>>

Streams ==
    { DateStr(D2020) \o <<SP, "x", LF>>,
      DateStr(date_min) \o <<SP, "y", CR, LF>> \o DateStr(date_max) \o <<SP, SP, "x", SP>>,
      DateStr(D2020) \o <<SP, "y", LF>> \o BadLine,
      DateStr(Date(2020, 2, 30)) \o <<SP, "x", LF>>,
      DateStr(D2020) \o <<LF>> }

\* what the backing file may hold before the first session; it may also be absent
InitFiles ==
    { DateStr(D2020) \o <<SP, "x", SP, LF>> \o DateStr(date_min) \o <<SP, "y", LF>>,
      DateStr(date_min) \o <<SP, "x", LF>> \o BadLine }

(***************************************************************************)
(* State                                                                   *)
(***************************************************************************)
VARIABLES
    dir,     \* the directory: the inode of each path, 0 when the path does not exist
    ino,     \* the content of each inode, as the operating system holds it
    fd,      \* per process: the inode of the file save() has open, 0 when none
    buf,     \* per process: what has been printed to that file and not yet written to it
    synced,  \* per process: the content of that file os.fsync forced to stable storage
    outq,    \* per process: the events export has still to print
    data,    \* per process: self.data
    pc,      \* per process: where the session is
    res,     \* per process: the last call, its arguments, the store before it, its outcome
    old,     \* per process: what the backing file held when save() was entered
    orig,    \* per process: what the backing file held when the constructor was entered
    snap     \* the store of the last save() that completed, while no call has changed a store since

vars == <<dir, ino, fd, buf, synced, outq, data, pc, res, old, orig, snap>>

\* self.path and tmppath of save()
path == "storage.txt"
tmppath_is_path == path
tmppath == "storage.txt.kajak-tmp"
Paths == {path, "storage.txt.kajak-tmp"}
Inodes == 1..NInodes

Content(f) == IF dir[f] = 0 THEN <<>> ELSE ino[dir[f]]

\* the inodes a directory entry or an open file refers to
Used(d, f) == {d[q] : q \in Paths} \cup {f[q] : q \in Procs}
\* an inode nothing refers to
FreeInode(d, f) == CHOOSE i \in Inodes : i \notin Used(d, f) /\ \A j \in Inodes : j < i => j \in Used(d, f)
\* an inode nothing refers to any more holds nothing
Reclaim(d, f, c) == [i \in Inodes |-> IF i \in Used(d, f) THEN c[i] ELSE <<>>]

NoArgs == [date |-> NotADate, date_range |-> <<NotADate, NotADate>>, text |-> <<>>,
           multi |-> FALSE, new_date |-> NotADate, stream |-> <<>>, replace |-> FALSE]

\* the record of a call
Result(op, args, before, o, out) ==
    [op |-> op, args |-> args, before |-> before, err |-> o.err, payload |-> o.payload,
     lineno |-> o.lineno, out |-> out]

NoCall == Result("none", NoArgs, {}, Outcome({}, "ok", {}), <<>>)

Set(f, p, v) == [f EXCEPT ![p] = v]

Init ==
    /\ \/ /\ dir = [q \in Paths |-> 0]
          /\ ino = [i \in Inodes |-> <<>>]
       \/ \E f \in InitFiles \cup {<<>>} :
            /\ dir = [q \in Paths |-> IF q = path THEN 1 ELSE 0]
            /\ ino = [i \in Inodes |-> IF i = 1 THEN f ELSE <<>>]
    /\ fd = [q \in Procs |-> 0]
    /\ buf = [q \in Procs |-> <<>>]
    /\ synced = [q \in Procs |-> <<>>]
    /\ outq = [q \in Procs |-> <<>>]
    /\ data = [q \in Procs |-> {}]
    /\ pc = [q \in Procs |-> "start"]
    /\ res = [q \in Procs |-> NoCall]
    /\ old = [q \in Procs |-> <<>>]
    /\ orig = [q \in Procs |-> <<>>]
    /\ snap = {}

(***************************************************************************)
(* TextStorage.__init__                                                    *)
(***************************************************************************)
\* os.open with O_CREAT | O_TRUNC in place of O_CREAT | O_EXCL: an existing file is emptied
init_create_trunc(p) ==
    /\ pc[p] = "start"
    /\ IF dir[path] = 0
       THEN dir' = [dir EXCEPT ![path] = FreeInode(dir, fd)] /\ ino' = ino
       ELSE dir' = dir /\ ino' = [ino EXCEPT ![dir[path]] = <<>>]
    /\ data' = Set(data, p, {})
    /\ res' = Set(res, p, Result("create", [NoArgs EXCEPT !.stream = Content(path)], {},
                                 Outcome({}, "ok", {}), <<>>))
    /\ pc' = Set(pc, p, "import")
    /\ UNCHANGED <<fd, buf, synced, outq, old, snap>>
    /\ orig' = Set(orig, p, Content(path))

\* os.open(path, O_WRONLY | O_CREAT | O_EXCL), EEXIST passed over; self.data = set().
\* The record keeps what the file held at this step and whether it existed.
init_create(p) ==
    /\ pc[p] = "start"
    /\ IF dir[path] = 0
       THEN dir' = [dir EXCEPT ![path] = FreeInode(dir, fd)]
       ELSE dir' = dir
    /\ data' = Set(data, p, {})
    /\ res' = Set(res, p, Result("create", [NoArgs EXCEPT !.stream = Content(path)], {},
                                 Outcome({}, IF dir[path] = 0 THEN "ok" ELSE "EEXIST", {}),
                                 <<>>))
    /\ pc' = Set(pc, p, "import")
    /\ UNCHANGED <<ino, fd, buf, synced, outq, old, snap>>
    /\ orig' = Set(orig, p, Content(path))

\* open(path, 'r+t') and self.import_(file); an exception leaves the constructor
init_import(p) ==
    /\ pc[p] = "import"
    /\ LET o == import_(data[p], Content(path))
       IN  /\ data' = Set(data, p, o.data)
           /\ res' = Set(res, p, Result("load", [NoArgs EXCEPT !.stream = Content(path)],
                                        data[p], o, <<>>))
           /\ pc' = Set(pc, p, IF o.err = "ok" THEN "ready" ELSE "exit")
    /\ UNCHANGED <<dir, ino, fd, buf, synced, outq, old, snap, orig>>

(***************************************************************************)
(* Calls on a loaded store.  npc is where the session goes next.           *)
(***************************************************************************)
Call(p, op, args, o, out, npc) ==
    /\ pc[p] = "ready"
    /\ Cardinality(o.data) <= MaxStore
    /\ data' = Set(data, p, o.data)
    /\ res' = Set(res, p, Result(op, args, data[p], o, out))
    /\ pc' = Set(pc, p, npc)
    /\ snap' = {}
    /\ UNCHANGED <<dir, ino, fd, buf, synced, outq, old, orig>>

Push(p, date, text) ==
    Call(p, "push", [NoArgs EXCEPT !.date = date, !.text = text],
         push(data[p], date, text), <<>>, "ready")

Pop(p, date_range, text, multi) ==
    Call(p, "pop", [NoArgs EXCEPT !.date_range = date_range, !.text = text, !.multi = multi],
         pop(data[p], date_range, text, multi), <<>>, "ready")

Reschedule(p, date_range, text, new_date, multi) ==
    Call(p, "reschedule",
         [NoArgs EXCEPT !.date_range = date_range, !.text = text, !.new_date = new_date,
                        !.multi = multi],
         reschedule(data[p], date_range, text, new_date, multi), <<>>, "ready")

Clear(p, date_range) ==
    Call(p, "clear", [NoArgs EXCEPT !.date_range = date_range],
         clear(data[p], date_range), <<>>, "ready")

Import(p, stream) ==
    Call(p, "import", [NoArgs EXCEPT !.stream = stream],
         import_(data[p], stream), <<>>, "ready")

\* list(self.iter(date_range))
Iterate(p, date_range) ==
    Call(p, "iter", [NoArgs EXCEPT !.date_range = date_range],
         Outcome(data[p], "ok", {}), iter(data[p], date_range), "ready")

(***************************************************************************)
(* One session on a store: the constructor, then any sequence of calls     *)
(***************************************************************************)
Next ==
    \E p \in Solo :
        \/ init_create(p)
        \/ init_import(p)
        \/ \E a \in PushArgs : Push(p, a[1], a[2])
        \/ \E r \in Ranges, text \in QueryTexts, multi \in BOOLEAN : Pop(p, r, text, multi)
        \/ \E r \in MoveRanges, text \in QueryTexts, nd \in EventDates, multi \in BOOLEAN :
              Reschedule(p, r, text, nd, multi)
        \/ \E r \in Ranges : Clear(p, r)
        \/ \E s \in Streams : Import(p, s)
        \/ \E r \in Ranges : Iterate(p, r)

Spec == Init /\ [][Next]_vars

(***************************************************************************)
(* A store constructed on an absent file, then any sequence of push calls  *)
(***************************************************************************)
InitPush ==
    /\ dir = [q \in Paths |-> IF q = path THEN 1 ELSE 0]
    /\ ino = [i \in Inodes |-> <<>>]
    /\ fd = [q \in Procs |-> 0]
    /\ buf = [q \in Procs |-> <<>>]
    /\ synced = [q \in Procs |-> <<>>]
    /\ outq = [q \in Procs |-> <<>>]
    /\ data = [q \in Procs |-> {}]
    /\ pc = [q \in Procs |-> IF q \in Solo THEN "ready" ELSE "start"]
    /\ res = [q \in Procs |-> NoCall]
    /\ old = [q \in Procs |-> <<>>]
    /\ orig = [q \in Procs |-> <<>>]
    /\ snap = {}

NextPush == \E p \in Solo, a \in PushArgs : Push(p, a[1], a[2])

SpecPush == InitPush /\ [][NextPush]_vars

(***************************************************************************)
(* TextStorage.save, one system call or one print at a time                *)
(***************************************************************************)
\* open(tmppath, 'wt'): the file is created, or emptied when it exists; export starts
save_open(p) ==
    /\ pc[p] = "save"
    /\ LET i == IF dir[tmppath] = 0 THEN FreeInode(dir, fd) ELSE dir[tmppath]
       IN  /\ dir' = [dir EXCEPT ![tmppath] = i]
           /\ ino' = [ino EXCEPT ![i] = <<>>]
           /\ fd' = Set(fd, p, i)
    /\ old' = Set(old, p, Content(path))
    /\ buf' = Set(buf, p, <<>>)
    /\ synced' = Set(synced, p, <<>>)
    /\ outq' = Set(outq, p, iter(data[p], everytime))
    /\ res' = Set(res, p, Result("save", NoArgs, data[p], Outcome(data[p], "ok", {}), <<>>))
    /\ pc' = Set(pc, p, IF iter(data[p], everytime) = <<>> THEN "fsync" ELSE "write")
    /\ UNCHANGED <<data, snap, orig>>

\* the byte that reads back from a hole of a file
NUL == "NUL"

\* the offset of the file that save() has open: what it has printed and the
\* file object has written out
FilePos(p) ==
    Len(PrintAll(iter(data[p], everytime))) - Len(PrintAll(outq[p])) - Len(buf[p])

\* the content c of a file after write(b) at offset pos: a file shorter than
\* pos (another open has emptied it) gets a hole up to pos
WriteAt(c, pos, b) ==
    LET padded == IF Len(c) < pos THEN c \o [i \in 1..(pos - Len(c)) |-> NUL] ELSE c
    IN  SubSeq(padded, 1, pos) \o b \o SubSeq(padded, pos + Len(b) + 1, Len(padded))

\* print(date, text, file=file) of export: the line goes to the buffer of the file
\* object, which the library writes out when it is full (flush) or keeps
save_print(p, flush) ==
    /\ pc[p] = "write"
    /\ outq[p] # <<>>
    /\ LET b == buf[p] \o PrintLine(Head(outq[p]))
       IN  IF flush
           THEN /\ ino' = [ino EXCEPT ![fd[p]] = WriteAt(ino[fd[p]], FilePos(p), b)]
                /\ buf' = Set(buf, p, <<>>)
           ELSE /\ ino' = ino
                /\ buf' = Set(buf, p, b)
    /\ outq' = Set(outq, p, Tail(outq[p]))
    /\ pc' = Set(pc, p, IF Tail(outq[p]) = <<>> THEN "fsync" ELSE "write")
    /\ UNCHANGED <<dir, fd, synced, data, res, old, snap, orig>>

\* os.fsync(file): what the operating system holds of the file goes to stable
\* storage; the buffer of the file object is not written out
save_fsync(p) ==
    /\ pc[p] = "fsync"
    /\ synced' = Set(synced, p, ino[fd[p]])
    /\ pc' = Set(pc, p, "close")
    /\ UNCHANGED <<dir, ino, fd, buf, outq, data, res, old, snap, orig>>

\* the end of the with block: the file object writes its buffer out and is closed
save_close(p) ==
    /\ pc[p] = "close"
    /\ fd' = Set(fd, p, 0)
    /\ ino' = Reclaim(dir, fd', [ino EXCEPT ![fd[p]] =
                                    IF buf[p] = <<>> THEN ino[fd[p]]
                                    ELSE WriteAt(ino[fd[p]], FilePos(p), buf[p])])
    /\ buf' = Set(buf, p, <<>>)
    /\ pc' = Set(pc, p, "rename")
    /\ UNCHANGED <<dir, synced, outq, data, res, old, snap, orig>>

\* the directory after os.rename(src, dst) of an existing src
Renamed(d, src, dst) == IF src = dst THEN d ELSE [d EXCEPT ![dst] = d[src], ![src] = 0]

\* os.rename(tmppath, self.path); FileNotFoundError when tmppath is gone
save_rename(p) ==
    /\ pc[p] = "rename"
    /\ IF dir[tmppath] = 0
       THEN /\ res' = Set(res, p, [res[p] EXCEPT !.err = "FileNotFoundError"])
            /\ pc' = Set(pc, p, "exit")
            /\ UNCHANGED <<dir, ino, snap>>
       ELSE /\ dir' = Renamed(dir, tmppath, path)
            /\ ino' = Reclaim(dir', fd, ino)
            /\ snap' = {data[p]}
            /\ pc' = Set(pc, p, "saved")
            /\ UNCHANGED res
    /\ UNCHANGED <<fd, buf, synced, outq, data, old, orig>>

\* save() returns and the session ends
save_return(p) ==
    /\ pc[p] = "saved"
    /\ pc' = Set(pc, p, "exit")
    /\ UNCHANGED <<dir, ino, fd, buf, synced, outq, data, res, old, snap, orig>>

\* the process dies inside save(): its buffer is lost, its open file is closed
crash(p) ==
    /\ pc[p] \in {"save", "write", "fsync", "close", "rename", "saved"}
    /\ pc' = Set(pc, p, "crashed")
    /\ fd' = Set(fd, p, 0)
    /\ ino' = Reclaim(dir, fd', ino)
    /\ buf' = Set(buf, p, <<>>)
    /\ outq' = Set(outq, p, <<>>)
    /\ snap' = {}
    /\ old' = Set(old, p, IF pc[p] = "save" THEN Content(path) ELSE old[p])
    /\ UNCHANGED <<dir, synced, data, res, orig>>

(***************************************************************************)
(* The commands of cli.py: storage(options, save=...) constructs the       *)
(* store, the command makes its call, and save() runs when the block is    *)
(* left without an exception and save is true                              *)
(***************************************************************************)
\* do_push: Duplicate is caught and reported, any other exception leaves the block
do_push(p, text, date) ==
    LET o == push(data[p], date, text)
    IN  Call(p, "push", [NoArgs EXCEPT !.date = date, !.text = text], o, <<>>,
             IF o.err \in {"ok", "Duplicate"} THEN "save" ELSE "exit")

\* do_pop: handle_match_errors ends the process on NoMatches and MultipleMatches
do_pop(p, text, date_range, multi) ==
    LET o == pop(data[p], date_range, text, multi)
    IN  Call(p, "pop",
             [NoArgs EXCEPT !.date_range = date_range, !.text = text, !.multi = multi],
             o, <<>>, IF o.err = "ok" THEN "save" ELSE "exit")

\* do_reschedule: multi is not passed
do_reschedule(p, text, date_range, new_date) ==
    LET o == reschedule(data[p], date_range, text, new_date, FALSE)
    IN  Call(p, "reschedule",
             [NoArgs EXCEPT !.date_range = date_range, !.text = text, !.new_date = new_date],
             o, <<>>, IF o.err = "ok" THEN "save" ELSE "exit")

\* do_import with save() run however the block is left
do_import_finally(p, replace, stream) ==
    LET o == import_(IF replace THEN clear(data[p], everytime).data ELSE data[p], stream)
    IN  Call(p, "import", [NoArgs EXCEPT !.stream = stream, !.replace = replace],
             o, <<>>, "save")

\* do_import: clear(everytime) under --replace, then import_ of standard input
do_import(p, replace, stream) ==
    LET o == import_(IF replace THEN clear(data[p], everytime).data ELSE data[p], stream)
    IN  Call(p, "import", [NoArgs EXCEPT !.stream = stream, !.replace = replace],
             o, <<>>, IF o.err = "ok" THEN "save" ELSE "exit")

\* do_show under storage(options, save=True)
do_show_save(p, date_range, template) ==
    LET out == iter(data[p], date_range)
    IN  Call(p, "show", [NoArgs EXCEPT !.date_range = date_range],
             Outcome(data[p], IF out # <<>> /\ ~template THEN "AttributeError" ELSE "ok", {}),
             out, IF out # <<>> /\ ~template THEN "exit" ELSE "save")

\* do_show: save=False; render_plain reads event.date of the tuples that iter
\* yields, which raises AttributeError, unless a template renders them
do_show(p, date_range, template) ==
    LET out == iter(data[p], date_range)
    IN  Call(p, "show", [NoArgs EXCEPT !.date_range = date_range],
             Outcome(data[p], IF out # <<>> /\ ~template THEN "AttributeError" ELSE "ok", {}),
             out, "exit")

\* regexp.search(text) for a regexp without special characters: the pattern
\* occurs somewhere in the text
Search(regexp, text) ==
    \E i \in 0..(Len(text) - Len(regexp)) : SubSeq(text, i + 1, i + Len(regexp)) = regexp

\* Storage.grep
grep(d, regexp) == SelectSeq(storage_iter(d), LAMBDA e : Search(regexp, e[2]))

Regexps == {<<>>, <<"x">>, <<"z">>}

\* do_grep: save=False; render as in do_show
do_grep(p, regexp, template) ==
    LET out == grep(data[p], regexp)
    IN  Call(p, "grep", [NoArgs EXCEPT !.text = regexp],
             Outcome(data[p], IF out # <<>> /\ ~template THEN "AttributeError" ELSE "ok", {}),
             out, "exit")

\* do_export: save=False; export(options.range, stdout)
do_export(p, date_range) ==
    Call(p, "export", [NoArgs EXCEPT !.date_range = date_range],
         Outcome(data[p], "ok", {}), export(data[p], date_range), "exit")

\* do_edit: export(options.range, file), the editor, clear(options.range) and
\* import_(file).  status is the exit status of the editor, edited what the
\* file holds when the editor is left.
do_edit(p, date_range, status, edited) ==
    LET o == IF status # 0
             THEN Outcome(data[p], "CalledProcessError", {})
             ELSE import_(clear(data[p], date_range).data, edited)
    IN  Call(p, "edit", [NoArgs EXCEPT !.date_range = date_range, !.stream = edited],
             o, export(data[p], date_range), IF o.err = "ok" THEN "save" ELSE "exit")

\* main() of the next process
main(p) ==
    /\ pc[p] = "exit"
    /\ pc' = Set(pc, p, "start")
    /\ data' = Set(data, p, {})
    /\ res' = Set(res, p, NoCall)
    /\ old' = Set(old, p, <<>>)
    /\ synced' = Set(synced, p, <<>>)
    /\ UNCHANGED <<dir, ino, fd, buf, outq, snap>>
    /\ orig' = Set(orig, p, <<>>)

NextCli ==
    \E p \in Solo :
        \/ init_create(p)
        \/ init_import(p)
        \/ \E a \in PushArgs : do_push(p, a[2], a[1])
        \/ \E r \in Ranges, text \in QueryTexts, multi \in BOOLEAN : do_pop(p, text, r, multi)
        \/ \E r \in MoveRanges, text \in QueryTexts, nd \in EventDates :
              do_reschedule(p, text, r, nd)
        \/ \E replace \in BOOLEAN, s \in Streams : do_import(p, replace, s)
        \/ \E r \in Ranges, template \in BOOLEAN : do_show(p, r, template)
        \/ \E regexp \in Regexps, template \in BOOLEAN : do_grep(p, regexp, template)
        \/ \E r \in Ranges : do_export(p, r)
        \/ \E r \in Ranges, status \in {0, 1} :
              \E s \in Streams \cup {export(data[p], r)} : do_edit(p, r, status, s)
        \/ save_open(p)
        \/ \E flush \in BOOLEAN : save_print(p, flush)
        \/ save_fsync(p)
        \/ save_close(p)
        \/ save_rename(p)
        \/ save_return(p)
        \/ crash(p)
        \/ main(p)

SpecCli == Init /\ [][NextCli]_vars

(***************************************************************************)
(* Two processes at once on a backing file that is absent at first: each   *)
(* constructs the store, pushes one event and saves.  Every step is one    *)
(* system call or one print, and the steps of the two interleave freely.   *)
(***************************************************************************)
RacePush == {<<D2020, <<"x">>>>, <<date_min, <<"y">>>>}

InitRace == Init /\ dir[path] = 0

NextRace ==
    \E p \in Procs :
        \/ init_create(p)
        \/ init_import(p)
        \/ \E a \in RacePush : do_push(p, a[2], a[1])
        \/ save_open(p)
        \/ \E flush \in BOOLEAN : save_print(p, flush)
        \/ save_fsync(p)
        \/ save_close(p)
        \/ save_rename(p)
        \/ save_return(p)

SpecRace == InitRace /\ [][NextRace]_vars

(***************************************************************************)
(* Claims                                                                  *)
(***************************************************************************)
\* the events of store s within date_range whose text is text
Matching(s, date_range, text) ==
    {e \in s : date_range[1] <= e[1] /\ e[1] <= date_range[2] /\ e[2] = text}

\* C1: in a store built by push calls, a push of a (date, text) pair that the
\* store already holds raises Duplicate and leaves the store as it was, and the
\* store lists no (date, text) pair twice.
C1_PushDuplicate ==
    \A p \in Solo :
        res[p].op = "push" =>
            /\ <<res[p].args.date, res[p].args.text>> \in res[p].before =>
                  /\ res[p].err = "Duplicate"
                  /\ data[p] = res[p].before
            /\ \A i, j \in 1..Len(storage_iter(data[p])) :
                  i # j => storage_iter(data[p])[i] # storage_iter(data[p])[j]

C1_Witness ==
    \E p \in Solo :
        /\ res[p].op = "push"
        /\ <<res[p].args.date, res[p].args.text>> \in res[p].before
        /\ res[p].err = "Duplicate"
        /\ Cardinality(data[p]) = 2

\* C2: pop with more than one event of the range carrying the text: with multi
\* false it raises MultipleMatches whose argument is exactly the set of those
\* events and the store is unchanged; with multi true no such event is left.
C2_PopAmbiguous ==
    \A p \in Solo :
        LET c == Matching(res[p].before, res[p].args.date_range, res[p].args.text)
        IN  (res[p].op = "pop" /\ Cardinality(c) > 1) =>
                IF res[p].args.multi
                THEN res[p].err = "ok" /\ data[p] \cap c = {}
                ELSE /\ res[p].err = "MultipleMatches"
                     /\ res[p].payload = c
                     /\ data[p] = res[p].before

C2_Witness ==
    \E p \in Solo :
        /\ res[p].op = "pop"
        /\ ~res[p].args.multi
        /\ res[p].err = "MultipleMatches"
        /\ Cardinality(res[p].payload) = 2

\* C3: pop and reschedule with multi false, when no event of the range carries
\* the text, raise NoMatches and leave the store unchanged.
C3_NoMatches ==
    \A p \in Solo :
        LET c == Matching(res[p].before, res[p].args.date_range, res[p].args.text)
        IN  (res[p].op \in {"pop", "reschedule"} /\ ~res[p].args.multi /\ c = {}) =>
                /\ res[p].err = "NoMatches"
                /\ data[p] = res[p].before

C3_Witness ==
    \E p \in Solo :
        /\ res[p].op = "pop"
        /\ ~res[p].args.multi
        /\ res[p].err = "NoMatches"
        /\ \E e \in res[p].before : e[2] = res[p].args.text

\* C4: after reschedule either the store is as it was before the call, or no
\* candidate is left at a date other than new_date and (new_date, text) is in
\* the store; when it raises NoMatches or MultipleMatches the store is as before.
C4_RescheduleAllOrNothing ==
    \A p \in Solo :
        LET c == Matching(res[p].before, res[p].args.date_range, res[p].args.text)
        IN  res[p].op = "reschedule" =>
                /\ \/ data[p] = res[p].before
                   \/ /\ \A e \in c : e[1] # res[p].args.new_date => e \notin data[p]
                      /\ <<res[p].args.new_date, res[p].args.text>> \in data[p]
                /\ res[p].err # "ok" => data[p] = res[p].before

C4_Witness ==
    \E p \in Solo :
        /\ res[p].op = "reschedule"
        /\ res[p].args.multi
        /\ res[p].err = "ok"
        /\ Cardinality(Matching(res[p].before, res[p].args.date_range, res[p].args.text)) = 2
        /\ data[p] # res[p].before

\* C5: a load that follows a completed save() succeeds and yields the store
\* that save() was called on.
C5_RoundTrip ==
    \A p \in Solo :
        (res[p].op = "load" /\ snap # {}) =>
            /\ res[p].err = "ok"
            /\ \A s \in snap : data[p] = s

\* C6: after a crash at any step of save() the backing file holds either what
\* it held when save() was entered or the serialization of every event of the
\* store.
C6_OldOrNew ==
    \A p \in Solo :
        pc[p] = "crashed" =>
            Content(path) \in {old[p], PrintAll(sorted(data[p]))}

\* What save() keeps of it: at every step of save() and after a crash the
\* backing file holds either what it held when save() was entered or all that
\* this save() exported, never a part of it.
SaveReplacesWhole ==
    \A p \in Solo :
        pc[p] \in {"write", "fsync", "close", "rename", "saved", "crashed"} =>
            Content(path) \in {old[p], export(data[p], everytime)}

\* C7: when save() is about to rename the temporary file, nothing is left in
\* the buffer of the file object and all the temporary file holds has been
\* forced to stable storage.
C7_SyncedBeforeRename ==
    \A p \in Solo :
        pc[p] = "rename" =>
            /\ buf[p] = <<>>
            /\ synced[p] = Content(tmppath)

\* C8: iterating over the unbounded range yields the events in strictly
\* ascending (date, text) order.
C8_IterAscending ==
    \A p \in Solo :
        (res[p].op = "iter" /\ res[p].args.date_range \in {everytime, <<date_min, date_max>>}) =>
            \A i \in 1..(Len(res[p].out) - 1) : LessItem(res[p].out[i], res[p].out[i + 1])

C8_Witness ==
    \E p \in Solo :
        /\ res[p].op = "iter"
        /\ res[p].args.date_range = everytime
        /\ Len(res[p].out) = 2
        /\ res[p].out[1][1] = res[p].out[2][1]

\* C9: iter(range) yields, once each, exactly the events of the store whose
\* date d has lower <= d <= upper, and nothing when lower > upper.
C9_IterRange ==
    \A p \in Solo :
        LET r == res[p].args.date_range
        IN  res[p].op = "iter" =>
                /\ Elems(res[p].out) = {e \in res[p].before : r[1] <= e[1] /\ e[1] <= r[2]}
                /\ Len(res[p].out) = Cardinality(Elems(res[p].out))
                /\ r[1] > r[2] => res[p].out = <<>>

C9_Witness ==
    \E p \in Solo :
        /\ res[p].op = "iter"
        /\ Len(res[p].out) = 1
        /\ \E e \in res[p].before : e[1] > res[p].args.date_range[2]

\* the number of the first line of stream s that is no match of the line
\* pattern, 0 when every line matches
FirstBadLine(s) ==
    LET ls == Lines(Universal(s))
    IN  IF \E k \in 1..Len(ls) : ~Matches(ls[k])
        THEN CHOOSE k \in 1..Len(ls) : ~Matches(ls[k]) /\ \A j \in 1..(k - 1) : Matches(ls[j])
        ELSE 0

\* C10: loading or importing a stream with a line that is no match of the line
\* pattern raises SyntaxError, which carries the 1-based number of that line.
C10_SyntaxError ==
    \A p \in Solo :
        (res[p].op \in {"load", "import"} /\ FirstBadLine(res[p].args.stream) # 0) =>
            /\ res[p].err = "SyntaxError"
            /\ res[p].lineno = FirstBadLine(res[p].args.stream)

\* C11: the steps of the constructor never leave the backing file absent, and
\* when the file exists before such a step, whoever created or wrote it, the
\* step leaves it the same file with the same content.
C11_NeverTruncates ==
    [][\A p \in Procs :
          (pc[p] \in {"start", "import"} /\ pc'[p] # pc[p]) =>
              /\ dir'[path] # 0
              /\ dir[path] # 0 => dir'[path] = dir[path] /\ ino'[dir[path]] = ino[dir[path]]]_vars

\* the other process has created and written the file, absent at first, before
\* the creation step of this one
C11_Witness ==
    /\ pc[1] = "import"
    /\ res[1].op = "create"
    /\ res[1].err = "EEXIST"
    /\ res[1].args.stream # <<>>
    /\ Content(path) = res[1].args.stream

\* event._check_string: a text is valid when it is not empty, has no leading
\* or trailing whitespace and holds no carriage return or line feed
check_string(s) ==
    /\ s # <<>>
    /\ s = Strip(s)
    /\ \A i \in 1..Len(s) : s[i] \notin {CR, LF}

\* C12: the text of every stored event is valid, and a push of a text that is
\* not fails with ValueError and leaves the store as it was.
C12_TextValid ==
    \A p \in Solo :
        /\ pc[p] = "ready" => \A e \in data[p] : check_string(e[2])
        /\ (res[p].op = "push" /\ IsDate(res[p].args.date) /\ IsStr(res[p].args.text)
               /\ ~check_string(res[p].args.text)) =>
                  /\ res[p].err = "ValueError"
                  /\ data[p] = res[p].before

\* C13: iterating over the unbounded range chrono.everytime yields every event
\* of the store, and when save() returns the backing file holds the line of
\* every event of the store.
C13_EverytimeComplete ==
    \A p \in Solo :
        /\ (res[p].op = "show" /\ res[p].args.date_range = everytime) =>
               Elems(res[p].out) = res[p].before
        /\ pc[p] = "saved" => Content(path) = PrintAll(sorted(data[p]))

\* C14: a session whose command runs with save=False (show, grep, export) or
\* is left by an exception never enters save(), and when it has ended the
\* backing file holds what it held when the session began, nothing when it
\* was absent.
C14_NoSaveNoChange ==
    \A p \in Solo :
        (\/ res[p].op \in {"show", "grep", "export"}
         \/ res[p].op \in {"push", "pop", "reschedule", "import", "edit"}
               /\ res[p].err \notin {"ok", "Duplicate"}) =>
            /\ pc[p] = "exit"
            /\ Content(path) = orig[p]

\* a session abandoned after a failing import has changed its store
C14_Witness ==
    \E p \in Solo :
        /\ pc[p] = "exit"
        /\ res[p].op = "import"
        /\ res[p].err # "ok"
        /\ data[p] # res[p].before
        /\ orig[p] # <<>>
        /\ Content(path) = orig[p]

\* C15: when two processes load, push and save at once, no save() fails, and
\* once both have returned the backing file holds the serialization of the
\* store of the save() that renamed last.
C15_LastSaveWins ==
    /\ \A p \in Procs : res[p].op = "save" => res[p].err = "ok"
    /\ (\A p \in Procs : pc[p] \in {"saved", "exit"} /\ res[p].op = "save") =>
          \A s \in snap : Content(path) = PrintAll(sorted(s))

\* C16: a reschedule that succeeds leaves at least as many events in the
\* store as it found: it merges no candidate with another candidate nor with
\* an event already at (new_date, text).
C16_RescheduleKeepsCount ==
    \A p \in Solo :
        (res[p].op = "reschedule" /\ res[p].err = "ok") =>
            Cardinality(data[p]) >= Cardinality(res[p].before)

\* C17: an import that succeeds has added one event for each line of its
\* stream: a line whose (date, text) is in the store already, or on an earlier
\* line of the stream, makes the import fail.
C17_ImportRejectsDuplicate ==
    \A p \in Solo :
        (res[p].op = "import" /\ res[p].err = "ok") =>
            Cardinality(data[p]) =
                Cardinality(res[p].before) + Len(Lines(Universal(res[p].args.stream)))

\* C18: pop and reschedule with multi true succeed whatever the number of
\* candidates, and without candidates they leave the store as it was.
C18_MultiAlwaysSucceeds ==
    \A p \in Solo :
        (res[p].op \in {"pop", "reschedule"} /\ res[p].args.multi) =>
            /\ res[p].err = "ok"
            /\ Matching(res[p].before, res[p].args.date_range, res[p].args.text) = {} =>
                  data[p] = res[p].before

C18_Witness ==
    \E p \in Solo :
        /\ res[p].op = "pop"
        /\ res[p].args.multi
        /\ Matching(res[p].before, res[p].args.date_range, res[p].args.text) = {}
        /\ res[p].before # {}
        /\ res[p].err = "ok"

\* C19: pop and reschedule keep every event whose date is outside the range
\* or whose text differs; clear never fails and leaves exactly the events
\* whose date is outside the range.
C19_OnlyTargets ==
    \A p \in Solo :
        LET r == res[p].args.date_range
        IN  /\ res[p].op \in {"pop", "reschedule"} =>
                  \A e \in res[p].before :
                      (e[1] < r[1] \/ e[1] > r[2] \/ e[2] # res[p].args.text) => e \in data[p]
            /\ res[p].op = "clear" =>
                  /\ res[p].err = "ok"
                  /\ data[p] = {e \in res[p].before : e[1] < r[1] \/ e[1] > r[2]}

C19_Witness ==
    \E p \in Solo :
        /\ res[p].op = "clear"
        /\ Cardinality(res[p].before) = 2
        /\ Cardinality(data[p]) = 1

\* C20: when the call of a pop, reschedule, import or edit command fails with
\* NoMatches, MultipleMatches or on a line that import_ cannot parse, the
\* session ends without save() and the backing file holds what it held when
\* the session began, whatever has become of the store in memory.
C20_FailureSkipsSave ==
    \A p \in Solo :
        (/\ res[p].op \in {"pop", "reschedule", "import", "edit"}
         /\ res[p].err \in {"NoMatches", "MultipleMatches", "AttributeError", "ValueError"}) =>
            /\ pc[p] \notin {"save", "write", "fsync", "close", "rename", "saved"}
            /\ Content(path) = orig[p]

\* import --replace failed after it had cleared the store and added a line
C20_Witness ==
    \E p \in Solo :
        /\ pc[p] = "exit"
        /\ res[p].op = "import"
        /\ res[p].args.replace
        /\ res[p].err = "AttributeError"
        /\ res[p].before # {}
        /\ data[p] # {}
        /\ data[p] # res[p].before
        /\ Content(path) = orig[p]
        /\ orig[p] # <<>>

====
